---- MODULE Spec2Model ----
(***************************************************************************)
(* Model of src/experiment.js: a browser-run rating study.                 *)
(*                                                                         *)
(* JavaScript strings are sequences of one-character strings, so that      *)
(* building a file name and matching it against the pattern are real       *)
(* computations.  A JavaScript value that may be null is <<v>> when it is  *)
(* v and <<>> (NULL) when it is null.                                      *)
(***************************************************************************)
EXTENDS Integers, Sequences, FiniteSets, TLC

VARIABLES
    \* ---- filename / metadata codec (buildFiles, parseMeta)
    files,          \* result of the last buildFiles call
    sexTagIn,       \* sex tag handed to buildFiles
    genIdx,         \* index in files of the path handed to parseMeta, 0 if none
    parts,          \* components of a hand-made file name handed to parseMeta
    imgPath,        \* argument of parseMeta
    meta,           \* result of parseMeta
    cpc,            \* position of the codec run
    \* ---- participant id (getParam, safeUUID, participant_id)
    params,         \* URLSearchParams(location.search).get(name), per name
    participant_id, \* const participant_id, <<>> while unset
    uuidCalls,      \* number of safeUUID() calls
    idpc,           \* position of the top-level script at line 183
    \* ---- timeline build (makeBlockTrials, blocks, timeline)
    maleTrials,     \* const maleTrials, <<>> while unset
    femaleTrials,   \* const femaleTrials, <<>> while unset
    blocks,         \* const blocks, <<>> while unset
    bpc,            \* position of the top-level script at lines 335-365
    \* ---- session (auth, timeline, gate, persistence)
    CLOUDRESEARCH_COMPLETION_URL, \* the configured redirect target, <<>> if none
    authUser,       \* the auth service's current user
    fbUser,         \* let fbUser
    signIn,         \* state of the signInAnonymously() promise
    authPromise,    \* the promise ensureFirebaseAuth() returned: "pending",
                    \* "resolved" (its .finally reaction is due), "reacted"
    authCallbacks,  \* number of auth-state callbacks delivered so far
    runs,           \* number of jsPsych.run(timeline) calls
    timeline,       \* const timeline
    pos,            \* index of the step on display; 0 before run, Len+1 after
    sliders,        \* dataset.touched of the sliders on display
    btnDisabled,    \* btn.disabled
    msgDisplay,     \* msg.style.display; "absent" when there is no message
    data,           \* jsPsych.data: one record per finished step
    stream,         \* pushes to 'responses_stream', in the order issued
    responses,      \* pushes to 'responses', in the order issued
    finishPc,       \* position of on_finish: "idle", "awaiting", "done"
    redirectTimer,  \* the setTimeout of line 177 is pending
    location        \* window.location.href once navigated, <<>> before

codecVars == <<files, sexTagIn, genIdx, parts, imgPath, meta, cpc>>
idVars    == <<params, participant_id, uuidCalls, idpc>>
buildVars == <<maleTrials, femaleTrials, blocks, bpc>>
authVars  == <<authUser, fbUser, signIn, authPromise, authCallbacks, runs>>
gateVars  == <<sliders, btnDisabled, msgDisplay>>
saveVars  == <<data, stream, responses, finishPc, redirectTimer, location>>
sessionVars == <<CLOUDRESEARCH_COMPLETION_URL, authVars, timeline, pos, gateVars, saveVars>>

NULL == <<>>
Some(v) == <<v>>

(***************************************************************************)
(* Strings                                                                 *)
(***************************************************************************)
Digits == <<"0", "1", "2", "3", "4", "5", "6", "7", "8", "9">>

IsDigit(c) == \E i \in 1..10 : Digits[i] = c

DigitVal(c) == (CHOOSE i \in 1..10 : Digits[i] = c) - 1

\* Number -> decimal string, as a template literal does for an integer >= 0
RECURSIVE NumToString(_)
NumToString(n) ==
    IF n < 10 THEN <<Digits[n + 1]>>
    ELSE NumToString(n \div 10) \o <<Digits[(n % 10) + 1]>>

\* parseInt(s, 10) on a non-empty string of decimal digits
RECURSIVE parseInt(_)
parseInt(s) ==
    IF Len(s) = 0 THEN 0
    ELSE 10 * parseInt(SubSeq(s, 1, Len(s) - 1)) + DigitVal(s[Len(s)])

\* Case folding of the /i flag, on the letters the pattern names
ToLower(c) ==
    CASE c = "F" -> "f" [] c = "M" -> "m" [] c = "P" -> "p" [] c = "N" -> "n"
      [] c = "G" -> "g" [] c = "J" -> "j" [] c = "E" -> "e" [] OTHER -> c

LowerSeq(s) == [i \in 1..Len(s) |-> ToLower(s[i])]

RECURSIVE Flatten(_)
Flatten(ss) ==
    IF Len(ss) = 0 THEN <<>> ELSE Head(ss) \o Flatten(Tail(ss))

\* imgPath.split('/').pop(): what follows the last '/'
RECURSIVE LastSegment(_)
LastSegment(s) ==
    IF \E i \in 1..Len(s) : s[i] = "/"
    THEN LastSegment(SubSeq(s, (CHOOSE i \in 1..Len(s) : s[i] = "/") + 1, Len(s)))
    ELSE s

(***************************************************************************)
(* Filename / metadata codec                                               *)
(***************************************************************************)
IMAGE_EXT == <<".", "p", "n", "g">>

NUM_FACES_PER_SEX == 6
HEIGHT_CODES == << <<"1">>, <<"2">>, <<"3">> >>
ATTR_CODES   == << <<>>, <<".", "2">>, <<".", "3">> >>

MALE_TAG   == <<"M", ".", "F">>
FEMALE_TAG == <<"F", ".", "F">>
SexTags    == {MALE_TAG, FEMALE_TAG}

\* `${sexTag}.${face}_${h}${a}${IMAGE_EXT}`
FileName(sexTag, face, h, a) ==
    sexTag \o <<".">> \o NumToString(face) \o <<"_">> \o h \o a \o IMAGE_EXT

\* A plausible slip: the two inner loops exchanged
buildFilesSwapped(sexTag) ==
    Flatten([face \in 1..NUM_FACES_PER_SEX |->
        Flatten([ai \in 1..Len(ATTR_CODES) |->
            [hi \in 1..Len(HEIGHT_CODES) |->
                FileName(sexTag, face, HEIGHT_CODES[hi], ATTR_CODES[ai])]])])

\* for face / for h / for a / files.push(...)
buildFiles(sexTag) ==
    Flatten([face \in 1..NUM_FACES_PER_SEX |->
        Flatten([hi \in 1..Len(HEIGHT_CODES) |->
            [ai \in 1..Len(ATTR_CODES) |->
                FileName(sexTag, face, HEIGHT_CODES[hi], ATTR_CODES[ai])]])])

DIR_PREFIX == <<"a", "l", "l", "_", "i", "m", "a", "g", "e", "s", "/">>

\* files.map(f => `all_images/${f}`)
WithDir(fs) == [i \in 1..Len(fs) |-> DIR_PREFIX \o fs[i]]

malePaths   == WithDir(buildFiles(MALE_TAG))
femalePaths == WithDir(buildFiles(FEMALE_TAG))

\* images: [...malePaths, ...femalePaths]
preloadImages == malePaths \o femalePaths

Extensions == { <<"p", "n", "g">>, <<"j", "p", "g">>, <<"j", "p", "e", "g">> }

\* A plausible slip: the extension alternative left open
MatchExtAny(r) ==
    /\ Len(r) >= 2
    /\ r[1] = "."

\* \.(png|jpg|jpeg)$ under /i, on the rest r of the name
MatchExt(r) ==
    /\ Len(r) >= 2
    /\ r[1] = "."
    /\ LowerSeq(SubSeq(r, 2, Len(r))) \in Extensions

\* Length of the longest prefix of s made of digits (the greedy \d+)
RECURSIVE DigitRun(_)
DigitRun(s) ==
    IF Len(s) > 0 /\ IsDigit(s[1]) THEN 1 + DigitRun(Tail(s)) ELSE 0

NoMatch == [ok |-> FALSE]

\* name.match(/^([FM]\.F)\.(\d+)_([123])(?:\.([23]))?\.(png|jpg|jpeg)$/i)
\* m[4] is <<>> when the optional group did not take part in the match.
Match(name) ==
    IF ~ (/\ Len(name) >= 4
          /\ ToLower(name[1]) \in {"f", "m"}
          /\ name[2] = "."
          /\ ToLower(name[3]) = "f"
          /\ name[4] = ".")
    THEN NoMatch
    ELSE
    LET d == DigitRun(SubSeq(name, 5, Len(name))) IN
    IF ~ (/\ d >= 1
          /\ Len(name) >= 6 + d
          /\ name[5 + d] = "_"
          /\ name[6 + d] \in {"1", "2", "3"})
    THEN NoMatch
    ELSE
    LET r    == SubSeq(name, 7 + d, Len(name))
        base == [ok |-> TRUE,
                 m1 |-> SubSeq(name, 1, 3),
                 m2 |-> SubSeq(name, 5, 4 + d),
                 m3 |-> <<name[6 + d]>>]
    IN
    IF /\ Len(r) >= 2
       /\ r[1] = "."
       /\ r[2] \in {"2", "3"}
       /\ MatchExt(SubSeq(r, 3, Len(r)))
    THEN base @@ [m4 |-> <<r[2]>>]
    ELSE IF MatchExt(r)
    THEN base @@ [m4 |-> <<>>]
    ELSE NoMatch

NullMeta ==
    [sex |-> NULL, face_id |-> NULL, height_code |-> NULL,
     height_label |-> NULL, attract_code |-> NULL, attract_label |-> NULL]

\* A plausible slip: the attractiveness digit is dropped from attract_code
parseMetaNoAttr(path) ==
    LET m == Match(LastSegment(path)) IN
    IF ~ m.ok THEN NullMeta
    ELSE
    [sex           |-> Some(IF m.m1 = FEMALE_TAG THEN "Female" ELSE "Male"),
     face_id       |-> Some(parseInt(m.m2)),
     height_code   |-> Some(m.m3),
     height_label  |-> Some(IF m.m3 = <<"1">> THEN "Tall"
                            ELSE IF m.m3 = <<"2">> THEN "Average" ELSE "Short"),
     attract_code  |-> NULL,
     attract_label |-> Some(IF m.m4 = <<>> THEN "Attractive"
                            ELSE IF m.m4 = <<"2">> THEN "LessAttractive"
                            ELSE "VeryUnattractive")]

parseMeta(path) ==
    LET name == LastSegment(path)
        m    == Match(name)
    IN
    IF ~ m.ok THEN NullMeta
    ELSE
    LET tag == m.m1
        h   == m.m3
        a   == m.m4
    IN
    [sex           |-> Some(IF tag = FEMALE_TAG THEN "Female" ELSE "Male"),
     face_id       |-> Some(parseInt(m.m2)),
     height_code   |-> Some(h),
     height_label  |-> Some(IF h = <<"1">> THEN "Tall"
                            ELSE IF h = <<"2">> THEN "Average" ELSE "Short"),
     attract_code  |-> IF a = <<>> THEN NULL ELSE Some(a),
     attract_label |-> Some(IF a = <<>> THEN "Attractive"
                            ELSE IF a = <<"2">> THEN "LessAttractive"
                            ELSE "VeryUnattractive")]

(***************************************************************************)
(* Codec runs: buildFiles is called with a sex tag, then parseMeta is      *)
(* applied to one of the generated paths or to a hand-made file name.      *)
(***************************************************************************)
\* Components of hand-made file names: well-formed ones and ones that
\* break the naming scheme in one or several places.
PartTags  == { MALE_TAG, FEMALE_TAG, <<"m", ".", "f">>, <<"F", ".", "f">>,
               <<"f", ".", "f">>, <<"X", ".", "F">>, <<"M", ".", "M">> }
PartFaces == { <<"1">>, <<"6">>, <<"7">>, <<"0">>, <<"1", "2">>, <<"x">>, <<>> }
PartHeights == { <<"1">>, <<"2">>, <<"3">>, <<"4">>, <<"0">> }
PartAttrs == { <<>>, <<".", "2">>, <<".", "3">>, <<".", "4">>, <<".", "1">> }
PartExts  == { IMAGE_EXT, <<".", "j", "p", "g">>, <<".", "j", "p", "e", "g">>,
               <<".", "P", "N", "G">>, <<".", "g", "i", "f">>, <<"p", "n", "g">>, <<>> }

NoParts == [tag |-> <<>>, face |-> <<>>, h |-> <<>>, a |-> <<>>, ext |-> <<>>]

PartsName(p) == p.tag \o <<".">> \o p.face \o <<"_">> \o p.h \o p.a \o p.ext

InitCodecVars ==
    /\ files = <<>>
    /\ sexTagIn = <<>>
    /\ genIdx = 0
    /\ parts = NoParts
    /\ imgPath = <<>>
    /\ meta = NullMeta
    /\ cpc = "start"

\* const maleFiles = buildFiles('M.F'); const femaleFiles = buildFiles('F.F');
CallBuildFiles ==
    /\ cpc = "start"
    /\ \E t \in SexTags :
          /\ sexTagIn' = t
          /\ files' = buildFiles(t)
    /\ cpc' = "built"
    /\ UNCHANGED <<genIdx, parts, imgPath, meta>>
    /\ UNCHANGED <<idVars, buildVars, sessionVars>>

\* a generated path, bare (maleFiles) or under all_images/ (malePaths)
PickGenerated ==
    /\ cpc = "built"
    /\ \E i \in 1..Len(files), dir \in BOOLEAN :
          /\ genIdx' = i
          /\ imgPath' = IF dir THEN WithDir(files)[i] ELSE files[i]
    /\ cpc' = "picked"
    /\ UNCHANGED <<files, sexTagIn, parts, meta>>
    /\ UNCHANGED <<idVars, buildVars, sessionVars>>

\* any other file name
PickHandMade ==
    /\ cpc = "built"
    /\ \E t \in PartTags, f \in PartFaces, h \in PartHeights,
          a \in PartAttrs, e \in PartExts, dir \in BOOLEAN :
          LET p == [tag |-> t, face |-> f, h |-> h, a |-> a, ext |-> e] IN
          /\ parts' = p
          /\ imgPath' = IF dir THEN DIR_PREFIX \o PartsName(p) ELSE PartsName(p)
    /\ genIdx' = 0
    /\ cpc' = "picked"
    /\ UNCHANGED <<files, sexTagIn, meta>>
    /\ UNCHANGED <<idVars, buildVars, sessionVars>>

\* ...parseMeta(imgPath)
CallParseMeta ==
    /\ cpc = "picked"
    /\ meta' = parseMeta(imgPath)
    /\ cpc' = "parsed"
    /\ UNCHANGED <<files, sexTagIn, genIdx, parts, imgPath>>
    /\ UNCHANGED <<idVars, buildVars, sessionVars>>

NextCodec ==
    \/ CallBuildFiles
    \/ PickGenerated
    \/ PickHandMade
    \/ CallParseMeta

(***************************************************************************)
(* Participant id                                                          *)
(***************************************************************************)
ParamNames == <<"pid", "workerId", "PROLIFIC_PID">>

\* Characters of parameter values.  "%" followed by two of the others is an
\* escape of a byte 0x11..0xBB; no UTF-8 lead byte can be written with them.
HexDigits == <<"0", "1", "2", "3", "4", "5", "6", "7", "8", "9",
               "A", "B", "C", "D", "E", "F">>

IsHex(c) == \E i \in 1..16 : HexDigits[i] = c

HexVal(c) == (CHOOSE i \in 1..16 : HexDigits[i] = c) - 1

\* String.fromCharCode for the bytes below 0x80 that the escapes can name
CharOfByte(b) ==
    CASE b = 37 -> "%" [] b = 49 -> "1" [] b = 52 -> "4"
      [] b = 65 -> "A" [] b = 66 -> "B" [] b = 68 -> "D"
      [] b = 74 -> "J" [] b = 75 -> "K"
      [] OTHER -> "\\x" \o ToString(b)

Throws == [threw |-> TRUE]
Returns(v) == [threw |-> FALSE, value |-> v]

\* decodeURIComponent(s): every %XX is replaced by the character it encodes;
\* a "%" not followed by two hex digits, or a byte that cannot start a UTF-8
\* sequence (0x80..0xBF), raises URIError.
RECURSIVE decodeURIComponent(_)
decodeURIComponent(s) ==
    IF Len(s) = 0 THEN Returns(<<>>)
    ELSE IF s[1] # "%" THEN
        LET rest == decodeURIComponent(Tail(s)) IN
        IF rest.threw THEN Throws ELSE Returns(<<s[1]>> \o rest.value)
    ELSE IF ~ (Len(s) >= 3 /\ IsHex(s[2]) /\ IsHex(s[3])) THEN Throws
    ELSE
        LET b    == 16 * HexVal(s[2]) + HexVal(s[3])
            rest == decodeURIComponent(SubSeq(s, 4, Len(s)))
        IN
        IF b >= 128 \/ rest.threw THEN Throws
        ELSE Returns(<<CharOfByte(b)>> \o rest.value)

\* getParam('pid') || getParam('workerId') || getParam('PROLIFIC_PID')
LookupOrder == <<"pid", "workerId", "PROLIFIC_PID">>

\* const m = new URLSearchParams(location.search).get(name);
\* return m ? decodeURIComponent(m) : null;
\* q[name] is what URLSearchParams returns: NULL, or Some(value).
getParam(q, name) ==
    LET m == q[name] IN
    IF m # NULL /\ m[1] # <<>>
    THEN LET dec == decodeURIComponent(m[1]) IN
         IF dec.threw THEN Throws ELSE Returns(Some(dec.value))
    ELSE Returns(NULL)

\* JavaScript truthiness of a string-or-null
Truthy(v) == v # NULL /\ v[1] # <<>>

\* The || chain of line 184 from its k-th operand on; uuid is what safeUUID()
\* would return.  Result: the value, whether safeUUID was called, or a throw.
RECURSIVE OrChain(_, _, _)
OrChain(q, k, uuid) ==
    IF k > Len(LookupOrder)
    THEN [threw |-> FALSE, value |-> uuid, generated |-> TRUE]
    ELSE
        LET r == getParam(q, LookupOrder[k]) IN
        IF r.threw THEN [threw |-> TRUE, value |-> <<>>, generated |-> FALSE]
        ELSE IF Truthy(r.value)
        THEN [threw |-> FALSE, value |-> r.value[1], generated |-> FALSE]
        ELSE OrChain(q, k + 1, uuid)

\* What safeUUID() can return: a crypto.randomUUID() value, or the
\* 'pid_' + random + timestamp fallback
GeneratedIds == { <<"u", "u", "i", "d">>, <<"p", "i", "d", "_", "r", "t">> }

ParamValues == { <<>>, <<"A", "B">>, <<"B">>, <<"%", "4", "1">>, <<"1", "%">> }

ParamInputs == {NULL} \cup { Some(v) : v \in ParamValues }

InitIdVars ==
    /\ params = [n \in {"pid", "workerId", "PROLIFIC_PID"} |-> NULL]
    /\ participant_id = <<>>
    /\ uuidCalls = 0
    /\ idpc = "start"

\* the page is opened with some query string
OpenPage ==
    /\ idpc = "start"
    /\ params' \in [{"pid", "workerId", "PROLIFIC_PID"} -> ParamInputs]
    /\ idpc' = "loaded"
    /\ UNCHANGED <<participant_id, uuidCalls>>
    /\ UNCHANGED <<codecVars, buildVars, sessionVars>>

\* const participant_id = getParam('pid') || ... || safeUUID();
ResolveParticipantId ==
    /\ idpc = "loaded"
    /\ \E uuid \in GeneratedIds :
          LET r == OrChain(params, 1, uuid) IN
          IF r.threw
          THEN /\ idpc' = "threw"
               /\ UNCHANGED <<participant_id, uuidCalls>>
          ELSE /\ idpc' = "resolved"
               /\ participant_id' = r.value
               /\ uuidCalls' = IF r.generated THEN uuidCalls + 1 ELSE uuidCalls
    /\ UNCHANGED params
    /\ UNCHANGED <<codecVars, buildVars, sessionVars>>

NextId ==
    \/ OpenPage
    \/ ResolveParticipantId

(***************************************************************************)
(* Timeline                                                                *)
(***************************************************************************)
\* Bounds of the session model: the stimuli of each block that the session
\* shows, and the auth-state callbacks the auth service delivers.
TrialsPerBlock == 1
MaxAuthCallbacks == 2

questionTexts == <<"How attractive is this person?", "How tall is this person?",
                   "How athletic is this person?", "How intelligent is this person?">>

NumSliders == Len(questionTexts)

fullscreen   == [type |-> "fullscreen"]
preload      == [type |-> "preload"]   \* its images: preloadImages
welcome      == [type |-> "instructions", screen |-> "welcome"]
instructions == [type |-> "instructions", screen |-> "instructions"]
thankYou     == [type |-> "instructions", screen |-> "thankYou"]

makeBlockIntro(label) == [type |-> "instructions", screen |-> label]

makeImageTrial(blockLabel, path) ==
    [type |-> "survey-html-form",
     data |-> [block |-> blockLabel, image |-> path] @@ parseMeta(path)]

Perms(n) == { f \in [1..n -> 1..n] : \A i, j \in 1..n : i # j => f[i] # f[j] }

\* A plausible slip: every position draws the same element
shuffleRepeat(array, perm) == [i \in 1..Len(array) |-> array[perm[1]]]

\* jsPsych.randomization.shuffle(array): the array in the order perm
shuffle(array, perm) == [i \in 1..Len(array) |-> array[perm[i]]]

\* paths.map(p => makeImageTrial(label, p)), then shuffled
makeBlockTrials(label, paths, perm) ==
    shuffle([i \in 1..Len(paths) |-> makeImageTrial(label, paths[i])], perm)

\* The stimuli of a block that the session shows
Shown(paths) == SubSeq(paths, 1, TrialsPerBlock)

maleIntro   == makeBlockIntro("Male")
femaleIntro == makeBlockIntro("Female")

\* lines 357-365; bs is the shuffled pair of blocks
BuildTimeline(bs) ==
    <<fullscreen>> \o <<preload, welcome, instructions>>
        \o <<bs[1].intro>> \o bs[1].trials
        \o <<bs[2].intro>> \o bs[2].trials
        \o <<thankYou>>

\* The timeline for an outcome (pm, pf) of the two shuffles within the blocks
\* and an outcome pb of the shuffle of the blocks
TimelineFor(pm, pf, pb) ==
    BuildTimeline(shuffle(
        << [intro |-> maleIntro,
            trials |-> makeBlockTrials("Male", Shown(malePaths), pm)],
           [intro |-> femaleIntro,
            trials |-> makeBlockTrials("Female", Shown(femalePaths), pf)] >>, pb))

\* The timelines the script can build: every outcome of the three shuffles
Timelines ==
    { TimelineFor(pm, pf, pb) : pm \in Perms(TrialsPerBlock),
                                pf \in Perms(TrialsPerBlock),
                                pb \in Perms(2) }

IsRating(step) == step.type = "survey-html-form"

OnDisplay == IF pos \in 1..Len(timeline) THEN timeline[pos] ELSE [type |-> "none"]

(***************************************************************************)
(* Timeline build runs (lines 335-365, one statement per action)           *)
(***************************************************************************)
\* Bound of the build runs: the stimuli of each block that a run shuffles
ShuffledPerBlock == 3

\* The stimuli of a block that a build run shuffles
Shuffled(paths) == SubSeq(paths, 1, ShuffledPerBlock)

InitBuildVars ==
    /\ maleTrials = <<>>
    /\ femaleTrials = <<>>
    /\ blocks = <<>>
    /\ bpc = "start"

\* const maleTrials = makeBlockTrials('Male', malePaths);
MakeMaleTrials ==
    /\ bpc = "start"
    /\ \E pm \in Perms(ShuffledPerBlock) :
           maleTrials' = makeBlockTrials("Male", Shuffled(malePaths), pm)
    /\ bpc' = "male"
    /\ UNCHANGED <<femaleTrials, blocks>>
    /\ UNCHANGED <<codecVars, idVars, sessionVars>>

\* const femaleTrials = makeBlockTrials('Female', femalePaths);
MakeFemaleTrials ==
    /\ bpc = "male"
    /\ \E pf \in Perms(ShuffledPerBlock) :
           femaleTrials' = makeBlockTrials("Female", Shuffled(femalePaths), pf)
    /\ bpc' = "female"
    /\ UNCHANGED <<maleTrials, blocks>>
    /\ UNCHANGED <<codecVars, idVars, sessionVars>>

\* const blocks = jsPsych.randomization.shuffle([{intro, trials}, {intro, trials}]);
ShuffleBlocks ==
    /\ bpc = "female"
    /\ \E pb \in Perms(2) :
           blocks' = shuffle(<< [intro |-> maleIntro, trials |-> maleTrials],
                                [intro |-> femaleIntro, trials |-> femaleTrials] >>, pb)
    /\ bpc' = "blocks"
    /\ UNCHANGED <<maleTrials, femaleTrials>>
    /\ UNCHANGED <<codecVars, idVars, sessionVars>>

\* const timeline = []; timeline.push(...);
PushTimeline ==
    /\ bpc = "blocks"
    /\ timeline' = BuildTimeline(blocks)
    /\ bpc' = "built"
    /\ UNCHANGED <<maleTrials, femaleTrials, blocks>>
    /\ UNCHANGED <<codecVars, idVars, CLOUDRESEARCH_COMPLETION_URL, authVars, pos, gateVars, saveVars>>

NextBuild ==
    \/ MakeMaleTrials
    \/ MakeFemaleTrials
    \/ ShuffleBlocks
    \/ PushTimeline

(***************************************************************************)
(* Trial gate (makeImageTrial.on_load)                                     *)
(***************************************************************************)
\* A plausible slip: some instead of every
checkAllTouchedSome(sl) == \E s \in 1..Len(sl) : sl[s] = "1"

\* const ok = sliders.every(s => s.dataset.touched === '1')
checkAllTouched(sl) == \A s \in 1..Len(sl) : sl[s] = "1"

\* The gate variables after checkAllTouched() has run on sliders sl
GateAfterCheck(sl) ==
    LET ok == checkAllTouched(sl) IN
    /\ sliders' = sl
    /\ btnDisabled' = ~ ok
    /\ msgDisplay' = IF ok THEN "none" ELSE "block"

\* A plausible slip: on_load without btn.disabled = true and without the
\* checkAllTouched() of line 319
on_loadEnabled ==
    /\ sliders' = [s \in 1..NumSliders |-> "0"]
    /\ btnDisabled' = FALSE
    /\ msgDisplay' = "block"

\* on_load of a rating trial: btn.disabled = true, the message is inserted,
\* every slider gets touched = '0', the listeners are attached,
\* checkAllTouched() runs
on_load == GateAfterCheck([s \in 1..NumSliders |-> "0"])

\* A step without sliders is on display, or none
NoGate ==
    /\ sliders' = <<>>
    /\ btnDisabled' = FALSE
    /\ msgDisplay' = "absent"

\* A plausible slip: mark toggles the flag
TouchToggle(sl, s) == [sl EXCEPT ![s] = IF @ = "1" THEN "0" ELSE "1"]

\* s.dataset.touched = '1'
Touch(sl, s) == [sl EXCEPT ![s] = "1"]

\* One of the listeners of slider s runs: mark().  Each of the seven
\* listeners of a slider is {once: true} and runs the same mark, so a
\* slider's mark can run several times in a trial.
mark(s) ==
    /\ IsRating(OnDisplay)
    /\ s \in 1..Len(sliders)
    /\ GateAfterCheck(Touch(sliders, s))
    /\ UNCHANGED <<codecVars, idVars, buildVars, CLOUDRESEARCH_COMPLETION_URL, authVars, timeline, pos, saveVars>>

(***************************************************************************)
(* Firebase auth (ensureFirebaseAuth) and the start of the timeline        *)
(***************************************************************************)
ANON == Some("anon")

\* A plausible slip: every call of resolve makes the reaction due again
ResolvedEveryCall(p) == "resolved"

\* resolve(v) of the promise of line 95: only the first call settles it
Resolved(p) == IF p = "pending" THEN "resolved" ELSE p

\* firebase.auth().onAuthStateChanged((user) => { fbUser = user; resolve(user); })
\* The auth service delivers its current user: null until the sign-in has
\* succeeded, the anonymous user afterwards.
AuthStateChanged ==
    /\ authCallbacks < MaxAuthCallbacks
    /\ authCallbacks' = authCallbacks + 1
    /\ fbUser' = authUser
    /\ authPromise' = Resolved(authPromise)
    /\ UNCHANGED <<authUser, signIn, runs>>
    /\ UNCHANGED <<codecVars, idVars, buildVars, CLOUDRESEARCH_COMPLETION_URL, timeline, pos, gateVars, saveVars>>

\* signInAnonymously() fulfils; the code attaches no handler to that
SignInFulfils ==
    /\ signIn = "pending"
    /\ signIn' = "fulfilled"
    /\ authUser' = ANON
    /\ UNCHANGED <<fbUser, authPromise, authCallbacks, runs>>
    /\ UNCHANGED <<codecVars, idVars, buildVars, CLOUDRESEARCH_COMPLETION_URL, timeline, pos, gateVars, saveVars>>

\* A plausible slip: the catch handler without its resolve(null)
SignInRejectsUnresolved ==
    /\ signIn = "pending"
    /\ signIn' = "rejected"
    /\ UNCHANGED <<authUser, fbUser, authPromise, authCallbacks, runs>>
    /\ UNCHANGED <<codecVars, idVars, buildVars, CLOUDRESEARCH_COMPLETION_URL, timeline, pos, gateVars, saveVars>>

\* signInAnonymously() rejects: .catch((e) => { console.warn(...); resolve(null); })
SignInRejects ==
    /\ signIn = "pending"
    /\ signIn' = "rejected"
    /\ authPromise' = Resolved(authPromise)
    /\ UNCHANGED <<authUser, fbUser, authCallbacks, runs>>
    /\ UNCHANGED <<codecVars, idVars, buildVars, CLOUDRESEARCH_COMPLETION_URL, timeline, pos, gateVars, saveVars>>

\* The step at index p comes on display; on_load runs if it is a rating trial
Display(p) ==
    /\ pos' = p
    /\ IF p \in 1..Len(timeline) /\ IsRating(timeline[p]) THEN on_load ELSE NoGate

\* ensureFirebaseAuth().finally(() => { jsPsych.run(timeline); }): the
\* reaction of the settled promise runs
RunTimeline ==
    /\ authPromise = "resolved"
    /\ authPromise' = "reacted"
    /\ runs' = runs + 1
    /\ Display(1)
    /\ UNCHANGED <<authUser, fbUser, signIn, authCallbacks>>
    /\ UNCHANGED <<codecVars, idVars, buildVars, CLOUDRESEARCH_COMPLETION_URL, timeline, saveVars>>

(***************************************************************************)
(* Persistence (saveTrialRow, on_trial_finish, on_finish)                  *)
(***************************************************************************)
TIMESTAMP == "ServerValue.TIMESTAMP"

\* Number(s) for a string of decimal digits
Number(s) == parseInt(s)

\* What the form of a rating trial submits: the value of each slider, as a
\* string; the participant gives the same four answers on every trial
Answers == [Q1 |-> <<"4">>, Q2 |-> <<"7">>, Q3 |-> <<"1">>, Q4 |-> <<"5">>]

\* The record jsPsych stores for the step at index p when it finishes
DataOf(p) ==
    LET step == timeline[p]
        base == [trial_type |-> step.type, trial_index |-> p - 1,
                 participant_id |-> participant_id]
    IN
    IF IsRating(step)
    THEN base @@ step.data @@ [rt |-> 100 * p, response |-> Answers]
    ELSE base

\* A plausible slip: two answers change places in the aggregate
RatingFieldsSwapped(d) ==
    [block |-> d.block, image |-> d.image, sex |-> d.sex, face_id |-> d.face_id,
     height_label |-> d.height_label, attract_label |-> d.attract_label,
     rt |-> d.rt,
     Q1 |-> Number(d.response.Q2), Q2 |-> Number(d.response.Q1),
     Q3 |-> Number(d.response.Q3), Q4 |-> Number(d.response.Q4)]

\* the row on_finish maps a stored record to
RatingFields(d) ==
    [block |-> d.block, image |-> d.image, sex |-> d.sex, face_id |-> d.face_id,
     height_label |-> d.height_label, attract_label |-> d.attract_label,
     rt |-> d.rt,
     Q1 |-> Number(d.response.Q1), Q2 |-> Number(d.response.Q2),
     Q3 |-> Number(d.response.Q3), Q4 |-> Number(d.response.Q4)]

\* the row on_trial_finish hands to saveTrialRow
StreamRow(d) ==
    [participant_id |-> participant_id, createdAt |-> TIMESTAMP,
     block |-> d.block, image |-> d.image, sex |-> d.sex, face_id |-> d.face_id,
     height_label |-> d.height_label, attract_label |-> d.attract_label,
     rt |-> d.rt,
     Q1 |-> Number(d.response.Q1), Q2 |-> Number(d.response.Q2),
     Q3 |-> Number(d.response.Q3), Q4 |-> Number(d.response.Q4)]

\* saveTrialRow(row): db.ref('responses_stream').push(row), not awaited by
\* the caller
saveTrialRow(st, row) == Append(st, [row |-> row, status |-> "pending"])

\* A plausible slip: the test of trial_type left out of the hook
on_trial_finishAll(st, d) ==
    saveTrialRow(st, IF d.trial_type = "survey-html-form" THEN StreamRow(d)
                     ELSE [participant_id |-> participant_id, createdAt |-> TIMESTAMP])

\* on_trial_finish(data): the stream after the hook has run
on_trial_finish(st, d) ==
    IF d.trial_type = "survey-html-form" THEN saveTrialRow(st, StreamRow(d)) ELSE st

\* A plausible slip: the filter on trial_type left out
FinalTrialsUnfiltered(dt) ==
    [i \in 1..Len(dt) |->
        IF dt[i].trial_type = "survey-html-form" THEN RatingFields(dt[i])
        ELSE [trial_type |-> dt[i].trial_type]]

\* jsPsych.data.get().filter({trial_type: 'survey-html-form'}).values().map(...)
FinalTrials(dt) ==
    LET isForm(d) == d.trial_type = "survey-html-form"
        rows == SelectSeq(dt, isForm)
    IN  [i \in 1..Len(rows) |-> RatingFields(rows[i])]

Payload(dt) ==
    [participant_id |-> participant_id, trials |-> FinalTrials(dt),
     client_version |-> "v1", createdAt |-> TIMESTAMP]

\* A plausible slip: the push to 'responses' is not awaited, so on_finish
\* goes on to the redirect at once
on_finishNoAwait(dt) ==
    /\ responses' = Append(responses, [payload |-> Payload(dt), status |-> "pending"])
    /\ redirectTimer' = (CLOUDRESEARCH_COMPLETION_URL # <<>>)
    /\ finishPc' = "done"

\* on_finish up to its await: the payload is built from the data dt of the
\* finished steps and pushed to 'responses'
on_finish(dt) ==
    /\ responses' = Append(responses, [payload |-> Payload(dt), status |-> "pending"])
    /\ redirectTimer' = redirectTimer
    /\ finishPc' = "awaiting"

\* A plausible slip: the timeline goes on only once every streamed row has
\* been acknowledged
FinishStepAfterAck ==
    /\ \A i \in 1..Len(stream) : stream[i].status # "pending"
    /\ pos \in 1..Len(timeline)
    /\ IsRating(OnDisplay) => ~ btnDisabled
    /\ LET d == DataOf(pos) IN
       /\ data' = Append(data, d)
       /\ stream' = on_trial_finish(stream, d)
       /\ IF pos < Len(timeline)
          THEN UNCHANGED <<responses, finishPc, redirectTimer>>
          ELSE on_finish(Append(data, d))
    /\ Display(pos + 1)
    /\ UNCHANGED location
    /\ UNCHANGED <<codecVars, idVars, buildVars, CLOUDRESEARCH_COMPLETION_URL, authVars, timeline>>

\* The participant completes the step on display.  jsPsych stores its data,
\* calls on_trial_finish and shows the next step; after the last step it
\* calls on_finish.
FinishStep ==
    /\ pos \in 1..Len(timeline)
    /\ IsRating(OnDisplay) => ~ btnDisabled
    /\ LET d == DataOf(pos) IN
       /\ data' = Append(data, d)
       /\ stream' = on_trial_finish(stream, d)
       /\ IF pos < Len(timeline)
          THEN UNCHANGED <<responses, finishPc, redirectTimer>>
          ELSE on_finish(Append(data, d))
    /\ Display(pos + 1)
    /\ UNCHANGED location
    /\ UNCHANGED <<codecVars, idVars, buildVars, CLOUDRESEARCH_COMPLETION_URL, authVars, timeline>>

\* the push of stream entry i is acknowledged: saveTrialRow returns
StreamWriteResolves ==
    /\ \E i \in 1..Len(stream) :
          /\ stream[i].status = "pending"
          /\ stream' = [stream EXCEPT ![i].status = "ok"]
    /\ UNCHANGED <<data, responses, finishPc, redirectTimer, location>>
    /\ UNCHANGED <<codecVars, idVars, buildVars, CLOUDRESEARCH_COMPLETION_URL, authVars, timeline, pos, gateVars>>

\* A plausible slip: the catch block of saveTrialRow pushes the row again
PushRejectedRetry(st, i) ==
    Append([st EXCEPT ![i].status = "failed"], [row |-> st[i].row, status |-> "pending"])

\* catch (e) { console.warn('Partial save failed:', e); }
PushRejected(st, i) == [st EXCEPT ![i].status = "failed"]

\* the push of stream entry i rejects
StreamWriteRejects ==
    /\ \E i \in 1..Len(stream) :
          /\ stream[i].status = "pending"
          /\ stream' = PushRejected(stream, i)
    /\ UNCHANGED <<data, responses, finishPc, redirectTimer, location>>
    /\ UNCHANGED <<codecVars, idVars, buildVars, CLOUDRESEARCH_COMPLETION_URL, authVars, timeline, pos, gateVars>>

\* A plausible slip: the redirect placed inside the try, after the await
RedirectAfterOnSuccess(outcome) ==
    outcome = "ok" /\ CLOUDRESEARCH_COMPLETION_URL # <<>>

\* if (CLOUDRESEARCH_COMPLETION_URL) { setTimeout(...) }, reached after the
\* try/catch whatever the outcome of the awaited push
RedirectAfter(outcome) == CLOUDRESEARCH_COMPLETION_URL # <<>>

\* on_finish resumes after its await with the outcome of the push
ResumeOnFinish(outcome) ==
    /\ responses' = [responses EXCEPT ![Len(responses)].status = outcome]
    /\ redirectTimer' = RedirectAfter(outcome)
    /\ finishPc' = "done"

\* the push to 'responses' is acknowledged: console.log('Firebase final save OK')
FinalWriteResolves ==
    /\ finishPc = "awaiting"
    /\ ResumeOnFinish("ok")
    /\ UNCHANGED <<data, stream, location>>
    /\ UNCHANGED <<codecVars, idVars, buildVars, CLOUDRESEARCH_COMPLETION_URL, authVars, timeline, pos, gateVars>>

\* the push to 'responses' rejects: console.error('Firebase final save failed:', e)
FinalWriteRejects ==
    /\ finishPc = "awaiting"
    /\ ResumeOnFinish("failed")
    /\ UNCHANGED <<data, stream, location>>
    /\ UNCHANGED <<codecVars, idVars, buildVars, CLOUDRESEARCH_COMPLETION_URL, authVars, timeline, pos, gateVars>>

\* setTimeout(() => { window.location.href = CLOUDRESEARCH_COMPLETION_URL; }, 1200)
RedirectTimerFires ==
    /\ redirectTimer
    /\ redirectTimer' = FALSE
    /\ location' = CLOUDRESEARCH_COMPLETION_URL
    /\ UNCHANGED <<data, stream, responses, finishPc>>
    /\ UNCHANGED <<codecVars, idVars, buildVars, CLOUDRESEARCH_COMPLETION_URL, authVars, timeline, pos, gateVars>>

(***************************************************************************)
(* Specifications                                                          *)
(***************************************************************************)
vars == <<codecVars, idVars, buildVars, sessionVars>>

COMPLETION_URL == <<"h", "t", "t", "p", "s", ":", "/", "/", "c", "r">>

\* The query string the session is opened with
SessionParams ==
    [n \in {"pid", "workerId", "PROLIFIC_PID"} |->
        IF n = "workerId" THEN Some(<<"A", "B">>) ELSE NULL]

\* The page before its script has done anything that concerns the session
InitSessionVars ==
    /\ CLOUDRESEARCH_COMPLETION_URL = <<>>
    /\ authUser = NULL
    /\ fbUser = NULL
    /\ signIn = "none"
    /\ authPromise = "none"
    /\ authCallbacks = 0
    /\ runs = 0
    /\ timeline = <<>>
    /\ pos = 0
    /\ sliders = <<>>
    /\ btnDisabled = FALSE
    /\ msgDisplay = "absent"
    /\ data = <<>>
    /\ stream = <<>>
    /\ responses = <<>>
    /\ finishPc = "idle"
    /\ redirectTimer = FALSE
    /\ location = <<>>

\* The page once its script has run to its last line: the participant id is
\* resolved, the timeline is built, ensureFirebaseAuth() has registered the
\* auth-state callback and called signInAnonymously().
Init ==
    /\ InitCodecVars
    /\ params = SessionParams
    /\ participant_id = OrChain(SessionParams, 1, <<"u", "u", "i", "d">>).value
    /\ uuidCalls = 0
    /\ idpc = "resolved"
    /\ CLOUDRESEARCH_COMPLETION_URL \in {<<>>, COMPLETION_URL}
    /\ authUser = NULL
    /\ fbUser = NULL
    /\ signIn = "pending"
    /\ authPromise = "pending"
    /\ authCallbacks = 0
    /\ runs = 0
    /\ \E pm \in Perms(TrialsPerBlock), pf \in Perms(TrialsPerBlock), pb \in Perms(2) :
           /\ maleTrials = makeBlockTrials("Male", Shown(malePaths), pm)
           /\ femaleTrials = makeBlockTrials("Female", Shown(femalePaths), pf)
           /\ blocks = shuffle(<< [intro |-> maleIntro, trials |-> maleTrials],
                                  [intro |-> femaleIntro, trials |-> femaleTrials] >>, pb)
           /\ timeline = TimelineFor(pm, pf, pb)
    /\ bpc = "built"
    /\ pos = 0
    /\ sliders = <<>>
    /\ btnDisabled = FALSE
    /\ msgDisplay = "absent"
    /\ data = <<>>
    /\ stream = <<>>
    /\ responses = <<>>
    /\ finishPc = "idle"
    /\ redirectTimer = FALSE
    /\ location = <<>>

Next ==
    \/ AuthStateChanged
    \/ SignInFulfils
    \/ SignInRejects
    \/ RunTimeline
    \/ \E s \in 1..NumSliders : mark(s)
    \/ FinishStep
    \/ StreamWriteResolves
    \/ StreamWriteRejects
    \/ FinalWriteResolves
    \/ FinalWriteRejects
    \/ RedirectTimerFires

Spec == Init /\ [][Next]_vars

InitCodec == InitCodecVars /\ InitIdVars /\ InitBuildVars /\ InitSessionVars
SpecCodec == InitCodec /\ [][NextCodec]_vars

\* The auth service notifies the callback of line 96 of a signed-in user
AuthStateChangedSignedIn == AuthStateChanged /\ authUser # NULL

\* The session with its scheduling: the reaction of a settled promise is a
\* job the engine runs, and the auth service notifies its observers of a
\* sign-in; nothing else is required to happen
SpecLive ==
    Init /\ [][Next]_vars /\ WF_vars(RunTimeline) /\ WF_vars(AuthStateChangedSignedIn)

InitId == InitCodecVars /\ InitIdVars /\ InitBuildVars /\ InitSessionVars
SpecId == InitId /\ [][NextId]_vars

\* The script from line 335 to line 365, for every outcome of its shuffles
InitBuild == InitCodecVars /\ InitIdVars /\ InitBuildVars /\ InitSessionVars
SpecBuild == InitBuild /\ [][NextBuild]_vars

(***************************************************************************)
(* Claims about the session (specification Spec)                           *)
(***************************************************************************)
Finished == pos > Len(timeline)

AllTouched == \A s \in 1..NumSliders : s \in 1..Len(sliders) /\ sliders[s] = "1"

\* C1: while a rating trial is on display, Continue is enabled exactly when
\* each of the four sliders has been touched in this trial, and the message
\* is visible exactly when Continue is disabled.
C1_Gate ==
    IsRating(OnDisplay) =>
        /\ Len(sliders) = NumSliders
        /\ (~ btnDisabled) <=> AllTouched
        /\ (msgDisplay = "block") <=> btnDisabled
        /\ msgDisplay \in {"block", "none"}

C1_Witness ==
    /\ IsRating(OnDisplay)
    /\ AllTouched
    /\ ~ btnDisabled
    /\ msgDisplay = "none"

RatingSteps == SelectSeq(timeline, IsRating)

\* Number of rating trials of the timeline the script builds in full
FullRatingTrials == Len(malePaths) + Len(femalePaths)

\* What C2 says of the writes to 'responses', whatever the number of rows
OneFinalWrite ==
    /\ Len(responses) <= 1
    /\ (Len(responses) = 1) <=> Finished
    /\ Finished =>
          LET t == responses[1].payload.trials IN
          /\ Len(t) = Len(RatingSteps)
          /\ Len(t) = 2 * TrialsPerBlock
          /\ \A i \in 1..Len(t) : t[i].image = RatingSteps[i].data.image

\* C2 as stated: one write to 'responses', issued when the last step has
\* finished and not before, holding one row per rating trial and no other;
\* 2 x (N x 3 x 3) rows, which the claim puts at 36 for N = 6.
C2_AsStated ==
    /\ OneFinalWrite
    /\ Finished =>
          /\ FullRatingTrials = 2 * (NUM_FACES_PER_SEX * 3 * 3)
          /\ NUM_FACES_PER_SEX = 6 => FullRatingTrials = 36

\* C2 amended: the same, with 2 x (N x 3 x 3) = 108 rows for N = 6.
C2_Amended ==
    /\ OneFinalWrite
    /\ Finished =>
          /\ FullRatingTrials = 2 * (NUM_FACES_PER_SEX * 3 * 3)
          /\ NUM_FACES_PER_SEX = 6 => FullRatingTrials = 108

C2_Witness ==
    /\ Finished
    /\ Len(data) = Len(timeline)
    /\ Len(responses) = 1
    /\ Len(responses[1].payload.trials) = 2 * TrialsPerBlock

\* A streamed row without the two fields the aggregate leaves out
Strip(row) == [f \in (DOMAIN row) \ {"participant_id", "createdAt"} |-> row[f]]

CanFinishStep ==
    /\ pos \in 1..Len(timeline)
    /\ IsRating(OnDisplay) => ~ btnDisabled

\* C3: once the push of a trial's row has rejected, that row is not pushed
\* again; the step on display can still be completed on the same terms as
\* before; and when on_finish has run, the aggregate payload holds the failed
\* row and the rows of all later trials.
C3_FailedStreamWrite ==
    \A i \in 1..Len(stream) :
        stream[i].status = "failed" =>
            /\ \A j \in 1..Len(stream) : j # i => stream[j].row # stream[i].row
            /\ CanFinishStep => ENABLED FinishStep
            /\ (pos = Len(timeline) /\ CanFinishStep) => ENABLED (FinishStep /\ Finished')
            /\ Finished =>
                  /\ Len(responses) = 1
                  /\ \A j \in i..Len(stream) :
                        Strip(stream[j].row) = responses[1].payload.trials[j]

C3_Witness ==
    /\ Finished
    /\ Len(stream) = 2 * TrialsPerBlock
    /\ stream[1].status = "failed"
    /\ Strip(stream[1].row) = responses[1].payload.trials[1]
    /\ Strip(stream[Len(stream)].row) = responses[1].payload.trials[Len(stream)]

Redirecting == redirectTimer \/ location # <<>>

\* C4 as stated: with a redirect URL configured, the redirect is scheduled
\* and the navigation happens only after a successful final write.
C4_AsStated ==
    Redirecting => (Len(responses) = 1 /\ responses[1].status = "ok")

\* C4 amended: with a redirect URL configured, on_finish schedules the
\* redirect once the final write has settled, whether it succeeded or
\* failed; the navigation goes to the configured URL.
C4_Amended ==
    /\ (finishPc = "done" /\ CLOUDRESEARCH_COMPLETION_URL # <<>>) =>
          /\ responses[1].status \in {"ok", "failed"}
          /\ redirectTimer \/ location = CLOUDRESEARCH_COMPLETION_URL
    /\ location # <<>> => location = CLOUDRESEARCH_COMPLETION_URL

C4_Witness ==
    /\ finishPc = "done"
    /\ responses[1].status = "failed"
    /\ location = COMPLETION_URL

\* C5: the redirect timer is not scheduled and the navigation does not
\* happen before the final write has been issued and has settled; while the
\* final write is pending there is no redirect.
C5_RedirectAfterSettle ==
    /\ Redirecting => (Len(responses) = 1 /\ responses[1].status # "pending")
    /\ (Len(responses) = 0 \/ responses[Len(responses)].status = "pending") =>
          ~ Redirecting

C5_Witness ==
    /\ redirectTimer
    /\ location = <<>>
    /\ responses[1].status = "ok"

\* C6 as stated: once jsPsych.run has been called, the sign-in has succeeded
\* and its user has been delivered, or it has failed.
C6_AsStated ==
    runs > 0 => \/ (signIn = "fulfilled" /\ fbUser = ANON)
                \/ signIn = "rejected"

Touched == { s \in 1..Len(sliders) : sliders[s] = "1" }

\* C12: while a rating trial stays on display, a touched slider stays
\* touched, an enabled Continue button stays enabled, a step that leaves the
\* set of touched sliders as it is leaves the button and the message as they
\* are, and the button and the message after the step are those of the set
\* of touched sliders alone, not of the order or the kind of the events.
C12_GateMonotone ==
    [][ (IsRating(OnDisplay) /\ pos' = pos) =>
            /\ \A s \in 1..NumSliders : sliders[s] = "1" => sliders'[s] = "1"
            /\ (~ btnDisabled) => ~ btnDisabled'
            /\ (sliders' = sliders) => UNCHANGED <<btnDisabled, msgDisplay>>
            /\ btnDisabled' = ({ s \in 1..NumSliders : sliders'[s] = "1" } # 1..NumSliders)
            /\ msgDisplay' = IF btnDisabled' THEN "block" ELSE "none" ]_vars

\* Every slider of a rating trial has been touched and the button is enabled
C12_Witness ==
    /\ IsRating(OnDisplay)
    /\ Touched = 1..NumSliders
    /\ ~ btnDisabled
    /\ Len(data) > 0

\* C13: whenever a rating trial comes on display, whatever happened in the
\* trials before it, its four sliders are untouched and Continue is disabled.
C13_FreshGate ==
    [][ (pos' # pos /\ pos' \in 1..Len(timeline) /\ IsRating(timeline[pos'])) =>
            /\ sliders' = [s \in 1..NumSliders |-> "0"]
            /\ btnDisabled'
            /\ msgDisplay' = "block" ]_vars

\* The second rating trial is on display, untouched, after a first one whose
\* sliders were all touched
C13_Witness ==
    /\ IsRating(OnDisplay)
    /\ Len(stream) = 1
    /\ Touched = {}
    /\ btnDisabled

\* C14: the rows streamed so far are those of the rating trials finished so
\* far, one row each and none for any other step, in the order in which the
\* trials finished; and no two streamed rows are the same, whether their
\* pushes are pending, acknowledged or rejected.
C14_StreamWrites ==
    LET isForm(d) == d.trial_type = "survey-html-form"
        rated == SelectSeq(data, isForm)
    IN  /\ Len(stream) = Len(rated)
        /\ \A i \in 1..Len(stream) :
               /\ stream[i].row.image = rated[i].image
               /\ stream[i].row.rt = rated[i].rt
               /\ stream[i].status \in {"pending", "ok", "failed"}
        /\ \A i, j \in 1..Len(stream) : i < j => stream[i].row # stream[j].row

\* Both rating trials and the intro between them have finished; the first
\* push has rejected and the second is pending
C14_Witness ==
    /\ Len(stream) = 2 * TrialsPerBlock
    /\ Len(data) > Len(stream)
    /\ stream[1].status = "failed"
    /\ stream[Len(stream)].status = "pending"
    /\ stream[1].row.image = data[6].image

Pending == { i \in 1..Len(stream) : stream[i].status = "pending" }

\* C15: while pushes to the stream are unacknowledged, the step on display
\* can be completed on the same terms as without them, the awaited final
\* push can settle, and any one of the unacknowledged pushes, not only the
\* oldest, can be acknowledged next.
C15_StreamNeverBlocks ==
    Pending # {} =>
        /\ CanFinishStep => ENABLED FinishStep
        /\ finishPc = "awaiting" => ENABLED FinalWriteResolves
        /\ \A i \in Pending : ENABLED (StreamWriteResolves /\ stream'[i].status = "ok")

\* The session is complete, its final push acknowledged, the push of the
\* last row acknowledged, and the push of the first row still unacknowledged
C15_Witness ==
    /\ Finished
    /\ finishPc = "done"
    /\ responses[1].status = "ok"
    /\ Len(stream) = 2 * TrialsPerBlock
    /\ stream[1].status = "pending"
    /\ stream[Len(stream)].status = "ok"

\* C18: once on_finish has built its payload, the trials of the payload are,
\* row for row and in the same order, the rows on_trial_finish handed to the
\* stream without their participant_id and createdAt.
C18_AggregateEqualsStream ==
    finishPc # "idle" =>
        LET trials == responses[1].payload.trials IN
        /\ Len(trials) = Len(stream)
        /\ \A i \in 1..Len(stream) : trials[i] = Strip(stream[i].row)
        /\ \A i \in 1..Len(stream) :
               DOMAIN stream[i].row = DOMAIN trials[i] \cup {"participant_id", "createdAt"}

\* The payload has been built from two rating trials whose answers differ
\* from question to question
C18_Witness ==
    /\ finishPc # "idle"
    /\ Len(responses[1].payload.trials) = 2 * TrialsPerBlock
    /\ responses[1].payload.trials[1].Q1 # responses[1].payload.trials[1].Q2
    /\ stream[1].row.Q1 = 4

\* C16: once the anonymous sign-in has settled, by fulfilling or by
\* rejecting, jsPsych.run(timeline) is eventually called; a rejection is
\* absorbed by the catch handler and starts the timeline as well.
C16_TimelineStarts == (signIn \in {"fulfilled", "rejected"}) ~> (runs > 0)

\* The sign-in has rejected, no user was ever delivered, and the timeline runs
C16_Witness ==
    /\ signIn = "rejected"
    /\ authCallbacks = 0
    /\ fbUser = NULL
    /\ runs = 1
    /\ pos = 1

\* C19: jsPsych.run(timeline) is called at most once, however many auth-state
\* callbacks are delivered, with or without a user, and whether or not the
\* sign-in rejects; it has been called exactly when the reaction of the
\* promise has run.
C19_RunAtMostOnce ==
    /\ runs \in {0, 1}
    /\ (runs = 1) = (authPromise = "reacted")

\* The timeline runs once after the sign-in has rejected and every auth-state
\* callback the model allows has been delivered
C19_Witness ==
    /\ runs = 1
    /\ signIn = "rejected"
    /\ authCallbacks = MaxAuthCallbacks
    /\ pos > 1

(***************************************************************************)
(* Claims about the codec (specification SpecCodec)                        *)
(***************************************************************************)
NoDuplicates(seq) ==
    \A i, j \in 1..Len(seq) : i # j => seq[i] # seq[j]

Range(seq) == { seq[i] : i \in 1..Len(seq) }

SexLabel(tag) == IF tag = FEMALE_TAG THEN "Female" ELSE "Male"

\* The attract_code that stands for an attractiveness suffix:
\* null for '', "2" for '.2', "3" for '.3'
AttrCodeOf(suffix) == IF suffix = <<>> THEN NULL ELSE Some(Tail(suffix))

MetaKey(m) == <<m.sex, m.face_id, m.height_code, m.attract_code>>

AllFiles == buildFiles(MALE_TAG) \o buildFiles(FEMALE_TAG)

\* C7: parseMeta applied to a path that buildFiles produced (bare or under
\* all_images/) returns the sex label of the generating tag, the generating
\* face number, the generating height code and the attract_code standing for
\* the generating suffix; and no two generated paths have the same
\* (sex, face_id, height_code, attract_code).
C7_RoundTrip ==
    (cpc = "parsed" /\ genIdx > 0) =>
        LET nh   == Len(HEIGHT_CODES)
            na   == Len(ATTR_CODES)
            face == ((genIdx - 1) \div (nh * na)) + 1
            hi   == (((genIdx - 1) \div na) % nh) + 1
            ai   == ((genIdx - 1) % na) + 1
        IN
        /\ meta.sex = Some(SexLabel(sexTagIn))
        /\ meta.face_id = Some(face)
        /\ meta.height_code = Some(HEIGHT_CODES[hi])
        /\ meta.attract_code = AttrCodeOf(ATTR_CODES[ai])
        /\ \A j \in 1..Len(AllFiles) :
              AllFiles[j] # files[genIdx] =>
                  MetaKey(parseMeta(AllFiles[j])) # MetaKey(meta)

C7_Witness ==
    /\ cpc = "parsed"
    /\ genIdx > 0
    /\ sexTagIn = FEMALE_TAG
    /\ Len(imgPath) > Len(files[genIdx])
    /\ meta.attract_code = Some(<<"3">>)
    /\ meta.face_id = Some(NUM_FACES_PER_SEX)

\* The stimulus grammar as the specification words it
Conforming(p) ==
    /\ p.tag \in SexTags
    /\ p.face \in { NumToString(f) : f \in 1..NUM_FACES_PER_SEX }
    /\ p.h \in Range(HEIGHT_CODES)
    /\ p.a \in Range(ATTR_CODES)
    /\ p.ext = IMAGE_EXT

\* The grammar of the pattern of line 73
PatternConforming(p) ==
    /\ LowerSeq(p.tag) \in { LowerSeq(t) : t \in SexTags }
    /\ Len(p.face) >= 1
    /\ \A i \in 1..Len(p.face) : IsDigit(p.face[i])
    /\ p.h \in Range(HEIGHT_CODES)
    /\ p.a \in Range(ATTR_CODES)
    /\ Len(p.ext) >= 1
    /\ p.ext[1] = "."
    /\ LowerSeq(Tail(p.ext)) \in Extensions

\* C8 as stated: a file name outside the stimulus grammar (sex tag not exactly
\* M.F or F.F, face id outside 1..N, height code outside {1,2,3}, suffix
\* outside {'', '.2', '.3'}, extension missing or not the configured one)
\* parses to the all-null record.
C8_AsStated ==
    (cpc = "parsed" /\ genIdx = 0 /\ ~ Conforming(parts)) => meta = NullMeta

\* C8 amended: a file name outside the grammar of the pattern (sex tag not
\* M.F or F.F in either letter case, face id not a non-empty run of digits,
\* height code outside {1,2,3}, suffix outside {'', '.2', '.3'}, extension
\* missing or not png, jpg or jpeg in either letter case) parses to the
\* all-null record.
C8_Amended ==
    (cpc = "parsed" /\ genIdx = 0 /\ ~ PatternConforming(parts)) => meta = NullMeta

C8_Witness ==
    /\ cpc = "parsed"
    /\ genIdx = 0
    /\ parts.tag = MALE_TAG
    /\ parts.face = <<"1">>
    /\ parts.ext = <<>>
    /\ meta = NullMeta

\* The labels C17 gives to a name the pattern matches
HeightLabel(h) == IF h = <<"1">> THEN "Tall" ELSE IF h = <<"2">> THEN "Average" ELSE "Short"

AttractLabel(a) ==
    IF a = <<>> THEN "Attractive"
    ELSE IF a = <<".", "2">> THEN "LessAttractive" ELSE "VeryUnattractive"

LabelsOf(p) ==
    /\ meta.face_id = Some(parseInt(p.face))
    /\ meta.height_label = Some(HeightLabel(p.h))
    /\ meta.attract_label = Some(AttractLabel(p.a))

\* C17 as stated: for a file name the pattern matches, in whatever letter case
\* and with whichever accepted extension, sex is Female when the name's sex
\* tag is F.F and Male when it is M.F, height_label is Tall, Average or Short
\* for the height code 1, 2 or 3, and attract_label is Attractive,
\* LessAttractive or VeryUnattractive for no suffix, .2 or .3.
C17_AsStated ==
    (cpc = "parsed" /\ genIdx = 0 /\ PatternConforming(parts)) =>
        /\ meta.sex = Some(IF LowerSeq(parts.tag) = LowerSeq(FEMALE_TAG)
                           THEN "Female" ELSE "Male")
        /\ LabelsOf(parts)

\* What C10 says of buildFiles and the preload list, whatever N x 3 x 3 is:
\* N x 3 x 3 distinct paths, face outermost, height in the middle,
\* attractiveness innermost; no path of one sex tag is a path of the other;
\* the preload list holds every stimulus path exactly once.
Enumeration ==
    (cpc = "built") =>
        LET nh == Len(HEIGHT_CODES)
            na == Len(ATTR_CODES)
        IN
        /\ Len(files) = NUM_FACES_PER_SEX * 3 * 3
        /\ NoDuplicates(files)
        /\ \A face \in 1..NUM_FACES_PER_SEX, hi \in 1..nh, ai \in 1..na :
              files[(face - 1) * nh * na + (hi - 1) * na + ai]
                  = FileName(sexTagIn, face, HEIGHT_CODES[hi], ATTR_CODES[ai])
        /\ \A t \in SexTags \ {sexTagIn} : Range(buildFiles(t)) \cap Range(files) = {}
        /\ Len(preloadImages) = 2 * Len(files)
        /\ \A i \in 1..Len(files) :
              Cardinality({ k \in 1..Len(preloadImages) :
                              preloadImages[k] = WithDir(files)[i] }) = 1

\* C10 as stated: the enumeration, with 18 paths per sex tag for N = 6.
C10_AsStated ==
    /\ Enumeration
    /\ (cpc = "built" /\ NUM_FACES_PER_SEX = 6) => Len(files) = 18

\* C10 amended: the enumeration, with 54 paths per sex tag for N = 6.
C10_Amended ==
    /\ Enumeration
    /\ (cpc = "built" /\ NUM_FACES_PER_SEX = 6) => Len(files) = 54

C10_Witness ==
    /\ cpc = "built"
    /\ sexTagIn = MALE_TAG
    /\ files[Len(files)] = FileName(MALE_TAG, NUM_FACES_PER_SEX, <<"3">>, <<".", "3">>)

(***************************************************************************)
(* Claims about the participant id (specification SpecId)                  *)
(***************************************************************************)
Present(q, n) == q[n] # NULL /\ q[n][1] # <<>>

\* C9 as stated: the participant id is the value of the first of pid,
\* workerId, PROLIFIC_PID that is present and non-empty; an id is generated
\* only when none is.
C9_AsStated ==
    (idpc \in {"resolved", "threw"}) =>
        /\ idpc = "resolved"
        /\ IF \E k \in 1..3 : Present(params, ParamNames[k])
           THEN LET k == CHOOSE k \in 1..3 :
                            /\ Present(params, ParamNames[k])
                            /\ \A l \in 1..(k - 1) : ~ Present(params, ParamNames[l])
                IN  /\ participant_id = params[ParamNames[k]][1]
                    /\ uuidCalls = 0
           ELSE /\ participant_id \in GeneratedIds
                /\ uuidCalls = 1

(***************************************************************************)
(* Claims about the timeline build (specification SpecBuild)               *)
(***************************************************************************)
BlockPaths(label) == IF label = "Male" THEN Shuffled(malePaths) ELSE Shuffled(femalePaths)

\* The trial definitions of a block
TrialDefs(label) == { makeImageTrial(label, p) : p \in Range(BlockPaths(label)) }

\* seg holds every element of S exactly once, and nothing else
ExactlyOnce(seg, S) ==
    /\ Len(seg) = Cardinality(S)
    /\ \A t \in S : Cardinality({ i \in 1..Len(seg) : seg[i] = t }) = 1

Other(label) == IF label = "Male" THEN "Female" ELSE "Male"

\* C11: whatever the shuffles draw, the timeline is fullscreen, preload,
\* welcome, instructions, intro A, the trials of A, intro B, the trials of B,
\* thank-you, with (A, B) either (Male, Female) or (Female, Male); the segment
\* of a block holds each trial definition of that block exactly once and none
\* of the other block; and when the blocks are shuffled both orders can come
\* out.
C11_TimelineShape ==
    /\ bpc = "female" =>
           \A label \in {"Male", "Female"} :
               ENABLED (ShuffleBlocks /\ blocks'[1].intro = makeBlockIntro(label))
    /\ bpc = "built" =>
           LET n == ShuffledPerBlock IN
           /\ Len(timeline) = 7 + 2 * n
           /\ SubSeq(timeline, 1, 4) = <<fullscreen, preload, welcome, instructions>>
           /\ timeline[7 + 2 * n] = thankYou
           /\ \E A \in {"Male", "Female"} :
                  /\ timeline[5] = makeBlockIntro(A)
                  /\ ExactlyOnce(SubSeq(timeline, 6, 5 + n), TrialDefs(A))
                  /\ timeline[6 + n] = makeBlockIntro(Other(A))
                  /\ ExactlyOnce(SubSeq(timeline, 7 + n, 6 + 2 * n), TrialDefs(Other(A)))
                  /\ TrialDefs(A) \cap TrialDefs(Other(A)) = {}

\* The Female block came out first and its last stimulus is shown first
C11_Witness ==
    /\ bpc = "built"
    /\ timeline[5] = femaleIntro
    /\ timeline[6].data.image = Shuffled(femalePaths)[ShuffledPerBlock]
    /\ timeline[6 + ShuffledPerBlock] = maleIntro

====
